---- MODULE Spec2Model ----
(***************************************************************************)
(* A model of the browser front end: the transport client (api.js), the    *)
(* presentation helper (UI) and the controller (App).                      *)
(*                                                                         *)
(* Texts are sequences of characters, " " being whitespace.  Status        *)
(* messages are strings; the check-mark glyph that prefixes the success    *)
(* messages in the source is left out of them.                             *)
(***************************************************************************)
EXTENDS Naturals, Sequences, FiniteSets, TLC

VARIABLES
    ui,        \* the DOM: elements present, values, classes, pending timers
    state,     \* App.state
    storage,   \* localStorage's "theme" entry
    initPc,    \* where App.init is: "languages" (awaiting) or "ready"
    pending,   \* the handlers suspended at their await, oldest first
    lastCall,  \* the last call made of the transport client alone, and how it settled
    thrown,    \* the last handler or helper call ended with an uncaught exception
    ev         \* the last event, with what the claims need of the state before it

vars == <<ui, state, storage, initPc, pending, lastCall, thrown, ev>>

---------------------------------------------------------------------------
(* Bounds of the model *)

\* handlers suspended at an await at one time
MaxPending == 2
\* auto-hide timers pending at one time
MaxTimers == 2

---------------------------------------------------------------------------
(* Texts *)

Rep(c, n) == [i \in 1..n |-> c]

IsSpace(c) == c = " "

\* the first position from i on that holds no whitespace, Len(t) + 1 if none
RECURSIVE FirstInk(_, _)
FirstInk(t, i) ==
    IF i > Len(t) THEN i
    ELSE IF IsSpace(t[i]) THEN FirstInk(t, i + 1) ELSE i

\* the last position up to i that holds no whitespace, 0 if none
RECURSIVE LastInk(_, _)
LastInk(t, i) ==
    IF i < 1 THEN 0
    ELSE IF IsSpace(t[i]) THEN LastInk(t, i - 1) ELSE i

\* String.prototype.trim
Trim(t) == SubSeq(t, FirstInk(t, 1), LastInk(t, Len(t)))

\* text.split(/\s+/).length for a text with no whitespace at its ends: the
\* positions from i on that start a token
RECURSIVE Tokens(_, _)
Tokens(t, i) ==
    IF i > Len(t) THEN 0
    ELSE (IF ~IsSpace(t[i]) /\ (i = 1 \/ IsSpace(t[i - 1])) THEN 1 ELSE 0)
         + Tokens(t, i + 1)

WordCount(text) == IF Trim(text) # <<>> THEN Tokens(Trim(text), 1) ELSE 0

\* the minimum length handleSummarize asks of its text
MinSummaryLength == 50

EmptyText == <<>>
BlankText == <<" ", " ">>
ShortText == <<"a", " ", "a">>
\* 51 characters that trim to 49
PaddedText == <<" ">> \o Rep("a", MinSummaryLength - 1) \o <<" ">>
LongText == Rep("a", MinSummaryLength)

\* what the user may type into the input area
InputTexts == {EmptyText, BlankText, ShortText, PaddedText, LongText}

\* what the backend may answer as translated_text or summary
ReplyTexts == {<<"b">>, Rep("b", MinSummaryLength)}

---------------------------------------------------------------------------
(* Status messages *)

MsgEnterText == "Please enter some text"
MsgMinLength(n) == "Text must be at least " \o ToString(n) \o " characters"
MsgTranslating == "Translating..."
MsgSummarizing == "Summarizing..."
MsgTranslateFailed == "Translation failed"
MsgSummarizeFailed == "Summarization failed"
MsgTranslateError == "An error occurred during translation"
MsgSummarizeError == "An error occurred during summarization"
MsgTranslateFirst == "Please translate text first or select \"Original Text\""
MsgSummaryTooShort == "Text must be at least 50 characters for summarization"
MsgCannotSwap == "Cannot swap with auto-detect"
MsgSwapped == "Languages swapped"
MsgLanguagesFailed == "Failed to load languages"
MsgLanguagesError == "Error loading languages"
MsgConnect == "Failed to connect to server. Please ensure the backend is running."
MsgTranslated(time) == "Translated in " \o time \o "s"
MsgSummarized(time) == "Summarized in " \o time \o "s"

\* showStatus's default duration, and the durations its callers pass (ms)
DefaultDuration == 3000
SwapErrorDuration == 2000
SwappedDuration == 1500
SuccessDuration == 3000
FailureDuration == 5000

---------------------------------------------------------------------------
(* The DOM *)

TextAreas == {"inputText", "outputText"}
StatsLines == {"inputStats", "outputStats"}
Selects == {"sourceLanguage", "targetLanguage"}
LoadingButtons == {"translateBtn", "summarizeBtn"}
OutputButtons == {"copyOutput", "downloadOutput"}
Spinners == {"translateSpinner", "summarizeSpinner"}
RadioGroups == {"summaryLength", "summaryFormat", "summarySource"}

\* the element button.querySelector('.btn-text') finds
BtnText(buttonId) == buttonId \o " .btn-text"

\* every element the scripts look up
AllElements ==
    TextAreas \cup StatsLines \cup Selects \cup LoadingButtons \cup OutputButtons
    \cup Spinners \cup {BtnText(b) : b \in LoadingButtons}
    \cup {"translationModel", "summaryModel", "statusBar", "statusMessage",
          "summarySection", ".theme-icon", "themeToggle", "clearInput",
          "swapLanguages", "summaryToggle"}

NoStats == [chars |-> 0, words |-> 0]

\* the page as its markup gives it, before any script has run: `els` are the
\* elements the markup holds, `outDisabled` whether it disables the output
\* buttons
Page(els, outDisabled) ==
    [present |-> els,
     value |-> [a \in TextAreas |-> EmptyText],
     stats |-> [l \in StatsLines |-> NoStats],
     options |-> [s \in Selects |-> <<>>],
     sel |-> [s \in Selects |-> ""],
     disabled |-> [b \in LoadingButtons \cup OutputButtons |->
                      IF b \in OutputButtons THEN outDisabled ELSE FALSE],
     spinner |-> [s \in Spinners |-> FALSE],
     dimmed |-> [b \in LoadingButtons |-> FALSE],
     statusClasses |-> {},
     statusMsg |-> "",
     zeroDuration |-> FALSE,
     timers |-> 0,
     radio |-> [g \in RadioGroups |-> "none"],
     theme |-> "none",
     themeIcon |-> "",
     collapsed |-> FALSE,
     markupDisabled |-> outDisabled]

Has(u, id) == id \in u.present

---------------------------------------------------------------------------
(* UI: the presentation helper.  Each operator gives the DOM after the     *)
(* call; where a call can throw, a second operator says when.              *)

UpdateStats(u, textAreaId, statsId) ==
    IF ~Has(u, textAreaId) \/ ~Has(u, statsId) THEN u
    ELSE [u EXCEPT !.stats[statsId] =
             [chars |-> Len(u.value[textAreaId]),
              words |-> WordCount(u.value[textAreaId])]]

\* button.querySelector on a null button
ShowLoadingThrows(u, buttonId) == ~Has(u, buttonId)

ShowLoading(u, buttonId, spinnerId) ==
    IF Has(u, buttonId) /\ Has(u, spinnerId)
    THEN [u EXCEPT !.disabled[buttonId] = TRUE,
                   !.spinner[spinnerId] = TRUE,
                   !.dimmed[buttonId] =
                       IF Has(u, BtnText(buttonId)) THEN TRUE ELSE @]
    ELSE u

HideLoadingThrows(u, buttonId) == ~Has(u, buttonId)

HideLoading(u, buttonId, spinnerId) ==
    IF Has(u, buttonId) /\ Has(u, spinnerId)
    THEN [u EXCEPT !.disabled[buttonId] = FALSE,
                   !.spinner[spinnerId] = FALSE,
                   !.dimmed[buttonId] =
                       IF Has(u, BtnText(buttonId)) THEN FALSE ELSE @]
    ELSE u

\* type "info" adds no class.  A duration above 0 leaves one more auto-hide
\* timer pending; zeroDuration remembers whether the banner now standing
\* was shown with duration 0.
ShowStatus(u, message, type, duration) ==
    IF ~Has(u, "statusBar") \/ ~Has(u, "statusMessage") THEN u
    ELSE [u EXCEPT !.statusMsg = message,
                   !.statusClasses =
                       (IF type \in {"success", "error"} THEN {type} ELSE {})
                       \cup {"show"},
                   !.zeroDuration = (duration = 0),
                   !.timers = IF duration > 0 THEN @ + 1 ELSE @]

\* the callback showStatus hands to setTimeout
HideStatus(u) == [u EXCEPT !.statusClasses = @ \ {"show"}, !.timers = @ - 1]

Shown(u) == "show" \in u.statusClasses

\* the option values populateLanguageDropdown leaves in a select
\* the options were the excludeAuto test left out
OptionsIgnoringExclude(languages, excludeAuto) == languages

OptionsOf(languages, excludeAuto) ==
    SelectSeq(languages, LAMBDA code : ~(excludeAuto /\ code = "auto"))

\* a select whose options change shows its first option, or nothing
FirstOption(opts) == IF opts = <<>> THEN "" ELSE Head(opts)

PopulateLanguageDropdown(u, selectId, languages, excludeAuto) ==
    IF ~Has(u, selectId) THEN u
    ELSE [u EXCEPT !.options[selectId] = OptionsOf(languages, excludeAuto),
                   !.sel[selectId] =
                       FirstOption(OptionsOf(languages, excludeAuto))]

Range(s) == {s[i] : i \in DOMAIN s}

\* assigning select.value: a value no option has leaves nothing selected
SetSelect(u, selectId, v) ==
    [u EXCEPT !.sel[selectId] =
         IF v \in Range(u.options[selectId]) THEN v ELSE ""]

IconOf(theme) == IF theme = "dark" THEN "sun" ELSE "moon"

NewTheme(currentTheme) == IF currentTheme = "dark" THEN "light" ELSE "dark"

\* the document after toggleTheme; the entry it stores is the new attribute
ToggleThemeUi(u) ==
    [u EXCEPT !.theme = NewTheme(u.theme),
              !.themeIcon =
                  IF Has(u, ".theme-icon") THEN IconOf(NewTheme(u.theme)) ELSE @]

\* localStorage.getItem('theme') || 'light'; "null" is the missing entry
\* the saved theme were the fallback to 'light' left out
SavedThemeNoDefault(stored) == IF stored = "null" THEN "none" ELSE stored

SavedTheme(stored) == IF stored \in {"null", ""} THEN "light" ELSE stored

LoadTheme(u, stored) ==
    [u EXCEPT !.theme = SavedTheme(stored),
              !.themeIcon =
                  IF Has(u, ".theme-icon") THEN IconOf(SavedTheme(stored)) ELSE @]

ToggleSummarySection(u) ==
    IF Has(u, "summarySection") THEN [u EXCEPT !.collapsed = ~@] ELSE u

UpdateOutputButtons(u, hasText) ==
    [u EXCEPT !.disabled =
        [b \in DOMAIN @ |->
            IF b \in OutputButtons /\ Has(u, b) THEN ~hasText ELSE @[b]]]

SwapLanguages(u) ==
    IF ~Has(u, "sourceLanguage") \/ ~Has(u, "targetLanguage") THEN u
    ELSE IF u.sel["sourceLanguage"] = "auto"
    THEN ShowStatus(u, MsgCannotSwap, "error", SwapErrorDuration)
    ELSE ShowStatus(
             SetSelect(SetSelect(u, "sourceLanguage", u.sel["targetLanguage"]),
                       "targetLanguage", u.sel["sourceLanguage"]),
             MsgSwapped, "success", SwappedDuration)

GetRadioValue(u, name) == u.radio[name]

\* validateInput's result, and the DOM it leaves
ValidateInputOk(text, minLength) ==
    /\ text # <<>>
    /\ Trim(text) # <<>>
    /\ Len(Trim(text)) >= minLength

\* validateInput were its test for an empty text left out
ValidateInputLengthOnly(u, text, minLength) ==
    IF Len(Trim(text)) < minLength
    THEN ShowStatus(u, MsgMinLength(minLength), "error", DefaultDuration)
    ELSE u

ValidateInput(u, text, minLength) ==
    IF text = <<>> \/ Trim(text) = <<>>
    THEN ShowStatus(u, MsgEnterText, "error", DefaultDuration)
    ELSE IF Len(Trim(text)) < minLength
    THEN ShowStatus(u, MsgMinLength(minLength), "error", DefaultDuration)
    ELSE u

---------------------------------------------------------------------------
(* API: the transport client *)

\* A JSON body.  `has` names the fields an object carries; a field it does
\* not carry reads as undefined, whatever the record holds in its place.
Body(type, has, success, text, error, languages) ==
    [type |-> type, has |-> has, success |-> success, text |-> text,
     error |-> error, time |-> "0.5", languages |-> languages]

NullBody == Body("null", {}, FALSE, <<>>, "", <<>>)
FailureBody(error) ==
    Body("object", {"success"} \cup (IF error = "" THEN {} ELSE {"error"}),
         FALSE, <<>>, error, <<>>)
TextBody(text) ==
    Body("object", {"success", "text", "time"}, TRUE, text, "", <<>>)
LanguagesBody(languages) ==
    Body("object", {"success", "languages"}, TRUE, <<>>, "", languages)
\* success without the list
NoLanguagesBody == Body("object", {"success"}, TRUE, <<>>, "", <<>>)

\* the object post and get return from their catch
ConnectFailure == FailureBody(MsgConnect)

MsgServerError == "Model not available"

LanguageLists == {<<"auto", "en", "hi">>, <<"en", "fr">>}

\* the bodies the backend may send
Bodies ==
    {NullBody, FailureBody(""), FailureBody(MsgServerError), NoLanguagesBody}
    \cup {TextBody(t) : t \in ReplyTexts}
    \cup {LanguagesBody(l) : l \in LanguageLists}

\* how a fetch ends: it rejects, or it resolves with a body that is not
\* JSON, or it resolves with a JSON body
Fetched(kind, body) == [kind |-> kind, body |-> body]
NoAnswer == {Fetched("rejected", NullBody), Fetched("notjson", NullBody)}
FetchOutcomes == NoAnswer \cup {Fetched("json", b) : b \in Bodies}

\* the outcomes of a POST to /translate or /summarize
TextOutcomes ==
    NoAnswer
    \cup {Fetched("json", b) :
             b \in {NullBody, FailureBody(""), FailureBody(MsgServerError)}
                   \cup {TextBody(t) : t \in ReplyTexts}}

\* the outcomes of a GET of /languages
LanguageOutcomes ==
    NoAnswer
    \cup {Fetched("json", b) :
             b \in {NullBody, FailureBody(""), NoLanguagesBody}
                   \cup {LanguagesBody(l) : l \in LanguageLists}}

\* how an async call settles
Resolved(value) == [settled |-> "resolved", value |-> value]
Rejected == [settled |-> "rejected", value |-> NullBody]

\* post were its catch left out: the failure of fetch or json() passes on
PostWithoutCatch(fetch) ==
    IF fetch.kind = "json" THEN Resolved(fetch.body) ELSE Rejected

Post(fetch) ==
    IF fetch.kind = "json" THEN Resolved(fetch.body)
    ELSE Resolved(ConnectFailure)

Get(fetch) ==
    IF fetch.kind = "json" THEN Resolved(fetch.body)
    ELSE Resolved(ConnectFailure)

Translate(fetch) == Post(fetch)
Summarize(fetch) == Post(fetch)
GetLanguages(fetch) == Get(fetch)
GetTranslationModels(fetch) == Get(fetch)
GetSummarizationModels(fetch) == Get(fetch)

ApiFunctions ==
    {"post", "get", "translate", "summarize", "getLanguages",
     "getTranslationModels", "getSummarizationModels"}

ApiCall(fn, fetch) ==
    CASE fn = "post" -> Post(fetch)
      [] fn = "get" -> Get(fetch)
      [] fn = "translate" -> Translate(fetch)
      [] fn = "summarize" -> Summarize(fetch)
      [] fn = "getLanguages" -> GetLanguages(fetch)
      [] fn = "getTranslationModels" -> GetTranslationModels(fetch)
      [] fn = "getSummarizationModels" -> GetSummarizationModels(fetch)

Called(fn, fetch, result) == [fn |-> fn, fetch |-> fetch, result |-> result]
NoCall == Called("none", Fetched("json", NullBody), Resolved(NullBody))

\* reading a property of null throws; of any object it gives the field or
\* undefined
ReadThrows(body) == body.type = "null"
Truthy(body, field) ==
    /\ field \in body.has
    /\ field = "success" => body.success
    /\ field = "error" => body.error # ""

---------------------------------------------------------------------------
(* App: the controller.  A handler runs without interruption up to its     *)
(* await and again from the await to its end, so each part is one step.    *)

\* what the first part of a handler leaves: the DOM, whether it issued its
\* request (and is now suspended), the text it sent, whether it threw
Ran(u, issued, text, threw) ==
    [ui |-> u, issued |-> issued, text |-> text, threw |-> threw]

\* handleTranslate up to its await
HandleTranslate(u) ==
    IF ~Has(u, "inputText") \/ ~Has(u, "outputText")
    THEN Ran(u, FALSE, <<>>, FALSE)
    ELSE LET text == Trim(u.value["inputText"]) IN
    IF ~ValidateInputOk(text, 1)
    THEN Ran(ValidateInput(u, text, 1), FALSE, text, FALSE)
    ELSE IF ShowLoadingThrows(u, "translateBtn")
    THEN Ran(u, FALSE, text, TRUE)
    ELSE LET loading ==
                 ShowStatus(ShowLoading(u, "translateBtn", "translateSpinner"),
                            MsgTranslating, "info", 0)
    IN  IF {"sourceLanguage", "targetLanguage", "translationModel"}
               \subseteq u.present
        THEN Ran(loading, TRUE, text, FALSE)
        \* reading .value of a null element throws inside the try
        ELSE Ran(HideLoading(
                     ShowStatus(loading, MsgTranslateError, "error",
                                DefaultDuration),
                     "translateBtn", "translateSpinner"),
                 FALSE, text, FALSE)

\* what the second part of a handler leaves
Done(u, st) == [ui |-> u, state |-> st]

\* the else branch were the output area not cleared
TranslateFailedKeepsOutput(u, st, res) ==
    Done(ShowStatus(
             u,
             IF Truthy(res.value, "error") THEN res.value.error
             ELSE MsgTranslateFailed,
             "error", FailureDuration),
         st)

\* the else branch of handleTranslate: the response says no success
TranslateFailed(u, st, res) ==
    Done(ShowStatus(
             [u EXCEPT !.value["outputText"] = EmptyText],
             IF Truthy(res.value, "error") THEN res.value.error
             ELSE MsgTranslateFailed,
             "error", FailureDuration),
         st)

\* the try and catch blocks of handleTranslate from the await on
TranslateSettled(u, st, res) ==
    IF res.settled = "rejected" \/ ReadThrows(res.value)
    THEN Done(ShowStatus(u, MsgTranslateError, "error", DefaultDuration), st)
    ELSE IF Truthy(res.value, "success")
    THEN Done(ShowStatus(
                  UpdateOutputButtons(
                      UpdateStats(
                          [u EXCEPT !.value["outputText"] = res.value.text],
                          "outputText", "outputStats"),
                      TRUE),
                  MsgTranslated(res.value.time), "success", SuccessDuration),
              [st EXCEPT !.currentOutputText = res.value.text])
    ELSE TranslateFailed(u, st, res)

\* the handler were hideLoading the last statement of the try block
\* instead of a finally block
TranslateWithoutFinally(u, st, res) ==
    LET r == TranslateSettled(u, st, res) IN
    IF res.settled = "resolved" /\ ~ReadThrows(res.value)
    THEN Done(HideLoading(r.ui, "translateBtn", "translateSpinner"), r.state)
    ELSE r

\* handleTranslate from its await to its end: the finally block runs last
TranslateResumed(u, st, res) ==
    LET r == TranslateSettled(u, st, res) IN
    Done(HideLoading(r.ui, "translateBtn", "translateSpinner"), r.state)

\* getRadioValue(name) || fallback
RadioOr(u, name, fallback) ==
    IF GetRadioValue(u, name) = "none" THEN fallback
    ELSE GetRadioValue(u, name)

\* the text handleSummarize picks
SummaryText(u) ==
    IF RadioOr(u, "summarySource", "original") = "translated"
    THEN Trim(u.value["outputText"])
    ELSE Trim(u.value["inputText"])

\* the chosen text and its test were the text not trimmed
SummaryTextUntrimmed(u) ==
    IF RadioOr(u, "summarySource", "original") = "translated"
    THEN u.value["outputText"]
    ELSE u.value["inputText"]

SummaryAllowedRaw(u) == Len(SummaryTextUntrimmed(u)) >= MinSummaryLength

\* whether handleSummarize lets the text through
SummaryAllowed(u) == ValidateInputOk(SummaryText(u), MinSummaryLength)

\* handleSummarize up to its await
HandleSummarize(u) ==
    IF ~Has(u, "inputText") \/ ~Has(u, "outputText")
    THEN Ran(u, FALSE, <<>>, FALSE)
    ELSE LET text == SummaryText(u) IN
    IF ~SummaryAllowed(u)
    THEN Ran(ShowStatus(
                 ValidateInput(u, text, MinSummaryLength),
                 IF RadioOr(u, "summarySource", "original") = "translated"
                 THEN MsgTranslateFirst ELSE MsgSummaryTooShort,
                 "error", DefaultDuration),
             FALSE, text, FALSE)
    ELSE IF ShowLoadingThrows(u, "summarizeBtn")
    THEN Ran(u, FALSE, text, TRUE)
    ELSE LET loading ==
                 ShowStatus(ShowLoading(u, "summarizeBtn", "summarizeSpinner"),
                            MsgSummarizing, "info", 0)
    IN  IF Has(u, "summaryModel")
        THEN Ran(loading, TRUE, text, FALSE)
        ELSE Ran(HideLoading(
                     ShowStatus(loading, MsgSummarizeError, "error",
                                DefaultDuration),
                     "summarizeBtn", "summarizeSpinner"),
                 FALSE, text, FALSE)

\* the try and catch blocks of handleSummarize from the await on
SummarizeSettled(u, st, res) ==
    IF res.settled = "rejected" \/ ReadThrows(res.value)
    THEN Done(ShowStatus(u, MsgSummarizeError, "error", DefaultDuration), st)
    ELSE IF Truthy(res.value, "success")
    THEN Done(ShowStatus(
                  UpdateOutputButtons(
                      UpdateStats(
                          [u EXCEPT !.value["outputText"] = res.value.text],
                          "outputText", "outputStats"),
                      TRUE),
                  MsgSummarized(res.value.time), "success", SuccessDuration),
              [st EXCEPT !.currentOutputText = res.value.text])
    ELSE Done(ShowStatus(
                  u,
                  IF Truthy(res.value, "error") THEN res.value.error
                  ELSE MsgSummarizeFailed,
                  "error", FailureDuration),
              st)

\* handleSummarize from its await to its end
SummarizeResumed(u, st, res) ==
    LET r == SummarizeSettled(u, st, res) IN
    Done(HideLoading(r.ui, "summarizeBtn", "summarizeSpinner"), r.state)

\* loadLanguages from its await on, then the rest of init
LoadLanguages(u, st, res) ==
    IF res.settled = "rejected" \/ ReadThrows(res.value)
    THEN Done(ShowStatus(u, MsgLanguagesError, "error", DefaultDuration), st)
    ELSE IF Truthy(res.value, "success") /\ Truthy(res.value, "languages")
    THEN Done(PopulateLanguageDropdown(
                  PopulateLanguageDropdown(
                      u, "sourceLanguage", res.value.languages, FALSE),
                  "targetLanguage", res.value.languages, TRUE),
              [st EXCEPT !.languages = res.value.languages])
    ELSE Done(ShowStatus(u, MsgLanguagesFailed, "error", DefaultDuration), st)

SetDefaultLanguages(u) ==
    LET s == IF Has(u, "sourceLanguage")
             THEN SetSelect(u, "sourceLanguage", "auto") ELSE u
    IN  IF Has(s, "targetLanguage")
        THEN SetSelect(s, "targetLanguage", "hi") ELSE s

ClearInput(u, st) ==
    IF Has(u, "inputText")
    THEN Done(UpdateStats([u EXCEPT !.value["inputText"] = EmptyText],
                          "inputText", "inputStats"),
              [st EXCEPT !.currentInputText = EmptyText])
    ELSE Done(u, st)

InitialState ==
    [languages |-> <<>>, currentInputText |-> EmptyText,
     currentOutputText |-> EmptyText]

---------------------------------------------------------------------------
(* Events *)

\* the last event: its name, whether it issued a request, the call a helper
\* event made, and what the claims need of the state it started from
Before(u) ==
    [output |-> u.value["outputText"], disabled |-> u.disabled,
     sel |-> u.sel, theme |-> u.theme]

NoResult == Resolved(NullBody)

\* an event of which the properties need the name alone
Event(name) ==
    [name |-> name, issued |-> FALSE, result |-> NoResult, expects |-> {},
     pre |-> Before(Page({}, FALSE))]

\* an event of which they need more: whether it issued a request, how its
\* transport call settled, the state it started from
EventOf(name, issued, result) ==
    [name |-> name, issued |-> issued, result |-> result, expects |-> {},
     pre |-> Before(ui)]

\* a call of a helper by itself, with the elements it looks up
HelperEvent(name, expects) ==
    [name |-> name, issued |-> FALSE, result |-> NoResult,
     expects |-> expects, pre |-> Before(ui)]

Ready == initPc = "ready"

\* the page is loaded: loadTheme has run and init awaits the languages
Loaded(els, outDisabled, stored) ==
    /\ ui = LoadTheme(Page(els, outDisabled), stored)
    /\ state = InitialState
    /\ storage = stored
    /\ initPc = "languages"
    /\ pending = <<>>
    /\ lastCall = NoCall
    /\ thrown = FALSE
    /\ ev = Event("load")

\* the user reloads the page: the document is built anew, the requests in
\* flight and the timers are dropped, localStorage stays
Reload ==
    /\ ev.name # "load"
    /\ ui' = LoadTheme(Page(ui.present, ui.markupDisabled), storage)
    /\ state' = InitialState
    /\ initPc' = "languages"
    /\ pending' = <<>>
    /\ thrown' = FALSE
    /\ ev' = EventOf("reload", FALSE, NoResult)
    /\ UNCHANGED <<storage, lastCall>>

\* getLanguages settles: init runs to its end
InitSettles(fetch) ==
    /\ initPc = "languages"
    /\ LET res == GetLanguages(fetch)
           r == LoadLanguages(ui, state, res)
       IN  /\ ui' = SetDefaultLanguages(r.ui)
           /\ state' = r.state
    /\ initPc' = "ready"
    /\ thrown' = FALSE
    /\ ev' = Event("init")
    /\ UNCHANGED <<storage, pending, lastCall>>

\* the input listener
Input(t) ==
    /\ Ready /\ Has(ui, "inputText")
    /\ t # ui.value["inputText"]
    /\ ui' = UpdateStats([ui EXCEPT !.value["inputText"] = t],
                         "inputText", "inputStats")
    /\ state' = [state EXCEPT !.currentInputText = t]
    /\ thrown' = FALSE
    /\ ev' = Event("input")
    /\ UNCHANGED <<storage, initPc, pending, lastCall>>

ClearClick ==
    /\ Ready /\ Has(ui, "clearInput")
    /\ ui' = ClearInput(ui, state).ui
    /\ state' = ClearInput(ui, state).state
    /\ thrown' = FALSE
    /\ ev' = Event("clear")
    /\ UNCHANGED <<storage, initPc, pending, lastCall>>

\* the user checks a radio of the summarySource group
ChooseSource(v) ==
    /\ v # ui.radio["summarySource"]
    /\ ui' = [ui EXCEPT !.radio["summarySource"] = v]
    /\ thrown' = FALSE
    /\ ev' = Event("source")
    /\ UNCHANGED <<state, storage, initPc, pending, lastCall>>

\* a click reaches a button that is there, has its listener and is enabled
Clickable(buttonId) ==
    /\ Ready /\ Has(ui, buttonId)
    /\ buttonId \in DOMAIN ui.disabled => ~ui.disabled[buttonId]

Suspend(op, r) ==
    IF r.issued THEN Append(pending, [op |-> op, text |-> r.text])
    ELSE pending

TranslateClick ==
    /\ Clickable("translateBtn")
    /\ LET r == HandleTranslate(ui) IN
       /\ r.ui.timers <= MaxTimers
       /\ Len(Suspend("translate", r)) <= MaxPending
       /\ ui' = r.ui
       /\ pending' = Suspend("translate", r)
       /\ thrown' = r.threw
       /\ ev' = EventOf("translate", r.issued, NoResult)
    /\ UNCHANGED <<state, storage, initPc, lastCall>>

SummarizeClick ==
    /\ Clickable("summarizeBtn")
    /\ LET r == HandleSummarize(ui) IN
       /\ r.ui.timers <= MaxTimers
       /\ Len(Suspend("summarize", r)) <= MaxPending
       /\ ui' = r.ui
       /\ pending' = Suspend("summarize", r)
       /\ thrown' = r.threw
       /\ ev' = EventOf("summarize", r.issued, NoResult)
    /\ UNCHANGED <<state, storage, initPc, lastCall>>

Without(q, i) == SubSeq(q, 1, i - 1) \o SubSeq(q, i + 1, Len(q))

\* the request of the i-th suspended handler settles, and the handler runs
\* to its end
TranslateSettles(i, fetch) ==
    /\ i \in DOMAIN pending /\ pending[i].op = "translate"
    /\ LET res == Translate(fetch)
           r == TranslateResumed(ui, state, res)
       IN  /\ r.ui.timers <= MaxTimers
           /\ ui' = r.ui
           /\ state' = r.state
           /\ ev' = EventOf("translateDone", FALSE, res)
    /\ pending' = Without(pending, i)
    /\ thrown' = FALSE
    /\ UNCHANGED <<storage, initPc, lastCall>>

SummarizeSettles(i, fetch) ==
    /\ i \in DOMAIN pending /\ pending[i].op = "summarize"
    /\ LET res == Summarize(fetch)
           r == SummarizeResumed(ui, state, res)
       IN  /\ r.ui.timers <= MaxTimers
           /\ ui' = r.ui
           /\ state' = r.state
           /\ ev' = EventOf("summarizeDone", FALSE, res)
    /\ pending' = Without(pending, i)
    /\ thrown' = FALSE
    /\ UNCHANGED <<storage, initPc, lastCall>>

\* an auto-hide timer runs out
TimerFires ==
    /\ ui.timers > 0
    /\ ui' = HideStatus(ui)
    /\ thrown' = FALSE
    /\ ev' = Event("timer")
    /\ UNCHANGED <<state, storage, initPc, pending, lastCall>>

\* the answers to GET /languages this specification follows
MainLanguageOutcomes ==
    {Fetched("json", LanguagesBody(<<"auto", "en", "hi">>))}

\* The page's markup holds every element the scripts look up.
Init ==
    \E outDisabled \in BOOLEAN : Loaded(AllElements, outDisabled, "null")

Next ==
    \/ \E fetch \in MainLanguageOutcomes : InitSettles(fetch)
    \/ \E t \in InputTexts : Input(t)
    \/ ClearClick
    \/ \E v \in {"original", "translated"} : ChooseSource(v)
    \/ TranslateClick
    \/ SummarizeClick
    \/ \E i \in 1..MaxPending, fetch \in TextOutcomes : TranslateSettles(i, fetch)
    \/ \E i \in 1..MaxPending, fetch \in TextOutcomes : SummarizeSettles(i, fetch)
    \/ TimerFires
    \/ Reload

Spec == Init /\ [][Next]_vars

---------------------------------------------------------------------------
(* The language selectors and the theme *)

\* the user picks an option of a select
SelectLanguage(selectId, v) ==
    /\ Ready /\ Has(ui, selectId)
    /\ v \in Range(ui.options[selectId])
    /\ v # ui.sel[selectId]
    /\ ui' = SetSelect(ui, selectId, v)
    /\ thrown' = FALSE
    /\ ev' = Event("select")
    /\ UNCHANGED <<state, storage, initPc, pending, lastCall>>

SwapClick ==
    /\ Clickable("swapLanguages")
    /\ SwapLanguages(ui).timers <= MaxTimers
    /\ ui' = SwapLanguages(ui)
    /\ thrown' = FALSE
    /\ ev' = EventOf("swap", FALSE, NoResult)
    /\ UNCHANGED <<state, storage, initPc, pending, lastCall>>

\* toggleTheme: the attribute, the stored entry, the icon
ThemeClick ==
    /\ Clickable("themeToggle")
    /\ ui' = ToggleThemeUi(ui)
    /\ storage' = NewTheme(ui.theme)
    /\ thrown' = FALSE
    /\ ev' = EventOf("theme", FALSE, NoResult)
    /\ UNCHANGED <<state, initPc, pending, lastCall>>

SummaryToggleClick ==
    /\ Clickable("summaryToggle")
    /\ ui' = ToggleSummarySection(ui)
    /\ thrown' = FALSE
    /\ ev' = Event("summaryToggle")
    /\ UNCHANGED <<state, storage, initPc, pending, lastCall>>

\* the theme entry an earlier visit may have left
StoredThemes == {"null", "light", "dark"}

InitPrefs ==
    \E stored \in StoredThemes : Loaded(AllElements, TRUE, stored)

NextPrefs ==
    \/ \E fetch \in LanguageOutcomes : InitSettles(fetch)
    \/ \E id \in Selects, v \in {"auto", "en", "hi", "fr"} : SelectLanguage(id, v)
    \/ SwapClick
    \/ ThemeClick
    \/ SummaryToggleClick
    \/ TimerFires
    \/ Reload

SpecPrefs == InitPrefs /\ [][NextPrefs]_vars

---------------------------------------------------------------------------
(* The transport client by itself *)

\* bodies beyond those the controller is followed with
MoreBodies ==
    {FailureBody(MsgConnect), FailureBody("Text too long"), TextBody(EmptyText),
     LanguagesBody(<<>>), LanguagesBody(<<"auto">>)}

ApiOutcomes == FetchOutcomes \cup {Fetched("json", b) : b \in MoreBodies}

ApiCalled(fn, fetch) ==
    /\ lastCall' = Called(fn, fetch, ApiCall(fn, fetch))
    /\ UNCHANGED <<ui, state, storage, initPc, pending, thrown, ev>>

InitAPI == Loaded(AllElements, TRUE, "null")

NextAPI == \E fn \in ApiFunctions, fetch \in ApiOutcomes : ApiCalled(fn, fetch)

SpecAPI == InitAPI /\ [][NextAPI]_vars

---------------------------------------------------------------------------
(* The presentation helper by itself, on pages that lack elements *)

\* the elements the helpers below look up
HelperElements ==
    {"inputText", "inputStats", "translateBtn", "translateSpinner",
     BtnText("translateBtn"), "statusBar", "statusMessage", "sourceLanguage",
     "targetLanguage", "copyOutput", "downloadOutput", "summarySection"}

\* one call of a helper on the page as loaded: the DOM it leaves, or the
\* DOM as it was when the call throws
Helped(name, expects, throws, u) ==
    /\ ev.name = "load"
    /\ u.timers <= MaxTimers
    /\ ui' = IF throws THEN ui ELSE u
    /\ thrown' = throws
    /\ ev' = HelperEvent(name, expects)
    /\ UNCHANGED <<state, storage, initPc, pending, lastCall>>

UpdateStatsCalled ==
    Helped("updateStats", {"inputText", "inputStats"}, FALSE,
           UpdateStats(ui, "inputText", "inputStats"))

ShowLoadingCalled ==
    Helped("showLoading", {"translateBtn", "translateSpinner"},
           ShowLoadingThrows(ui, "translateBtn"),
           ShowLoading(ui, "translateBtn", "translateSpinner"))

HideLoadingCalled ==
    Helped("hideLoading", {"translateBtn", "translateSpinner"},
           HideLoadingThrows(ui, "translateBtn"),
           HideLoading(ui, "translateBtn", "translateSpinner"))

ShowStatusCalled(type, duration) ==
    Helped("showStatus", {"statusBar", "statusMessage"}, FALSE,
           ShowStatus(ui, MsgTranslating, type, duration))

PopulateCalled(selectId, languages, excludeAuto) ==
    Helped("populateLanguageDropdown", {selectId}, FALSE,
           PopulateLanguageDropdown(ui, selectId, languages, excludeAuto))

UpdateOutputButtonsCalled(hasText) ==
    Helped("updateOutputButtons", OutputButtons, FALSE,
           UpdateOutputButtons(ui, hasText))

SwapLanguagesCalled ==
    Helped("swapLanguages", Selects, FALSE, SwapLanguages(ui))

ToggleSummarySectionCalled ==
    Helped("toggleSummarySection", {"summarySection"}, FALSE,
           ToggleSummarySection(ui))

InitUI ==
    \E absent \in SUBSET HelperElements, outDisabled \in BOOLEAN :
        Loaded(AllElements \ absent, outDisabled, "null")

NextUI ==
    \/ UpdateStatsCalled
    \/ ShowLoadingCalled
    \/ HideLoadingCalled
    \/ \E type \in {"info", "success", "error"}, duration \in {0, DefaultDuration} :
           ShowStatusCalled(type, duration)
    \/ \E id \in Selects, l \in LanguageLists, x \in BOOLEAN : PopulateCalled(id, l, x)
    \/ \E hasText \in BOOLEAN : UpdateOutputButtonsCalled(hasText)
    \/ SwapLanguagesCalled
    \/ ToggleSummarySectionCalled

SpecUI == InitUI /\ [][NextUI]_vars

---------------------------------------------------------------------------
(* Properties *)

\* a button and its spinner show Loading
Loading(buttonId, spinnerId) == ui.disabled[buttonId] \/ ui.spinner[spinnerId]

\* a handler of the operation is suspended at its await
Awaiting(op) == \E i \in DOMAIN pending : pending[i].op = op

\* the response of the last event says no success: a domain failure, or the
\* failure the transport client makes of a fetch that gave no answer
SaidFailure ==
    /\ ev.result.settled = "resolved"
    /\ ev.result.value.type = "object"
    /\ ~ev.result.value.success

\* C1: Loading never outlasts the request: a translate or summarize button is
\* disabled or its spinner active only while a handler of that operation
\* awaits its transport call, and once that call has settled (success, domain
\* failure, transport failure, unreadable body) and the handler has run on,
\* the button is enabled and the spinner inactive.
C1_LoadingCleared ==
    /\ Loading("translateBtn", "translateSpinner") => Awaiting("translate")
    /\ Loading("summarizeBtn", "summarizeSpinner") => Awaiting("summarize")
    /\ ev.name = "translateDone" => ~Loading("translateBtn", "translateSpinner")
    /\ ev.name = "summarizeDone" => ~Loading("summarizeBtn", "summarizeSpinner")

\* a translate handler that had entered Loading was answered with a body it
\* cannot read, and Loading is over
C1_Witness ==
    /\ ev.name = "translateDone"
    /\ ev.pre.disabled["translateBtn"]
    /\ ev.result.value.type = "null"
    /\ ~Loading("translateBtn", "translateSpinner")

\* C2: at most one backend request, translate or summarize, is outstanding.
C2_OneRequest == Len(pending) <= 1

\* C3: a translate click on an input that trims to nothing issues no request,
\* does not enter Loading, leaves the output area as it was, and shows the
\* banner "Please enter some text".
C3_EmptyTranslate ==
    (ev.name = "translate" /\ Trim(ui.value["inputText"]) = <<>>) =>
        /\ ~ev.issued
        /\ ~Awaiting("translate")
        /\ ~Loading("translateBtn", "translateSpinner")
        /\ ui.value["outputText"] = ev.pre.output
        /\ Shown(ui)
        /\ ui.statusMsg = MsgEnterText

C3_Witness ==
    /\ ev.name = "translate"
    /\ ui.value["inputText"] = BlankText
    /\ ui.value["outputText"] # EmptyText
    /\ ui.statusMsg = MsgEnterText

\* the text the radio choice points a summarize click at
Chosen ==
    IF ui.radio["summarySource"] = "translated" THEN ui.value["outputText"]
    ELSE ui.value["inputText"]

\* C4: a summarize click issues its request only if the chosen text (the
\* input for "original", the output for "translated") has at least 50
\* characters once trimmed, and every summarize request in flight carries
\* such a text; otherwise no request is issued and Loading is not entered,
\* and with "translated" chosen and an empty output the banner left showing
\* is "Please translate text first or select "Original Text"".
C4_SummarizeMinimum ==
    /\ \A i \in DOMAIN pending :
           pending[i].op = "summarize" => Len(Trim(pending[i].text)) >= 50
    /\ ev.name = "summarize" =>
           IF Len(Trim(Chosen)) >= 50
           THEN ev.issued
           ELSE /\ ~ev.issued
                /\ ~Awaiting("summarize")
                /\ ~Loading("summarizeBtn", "summarizeSpinner")
                /\ (ui.radio["summarySource"] = "translated"
                    /\ ui.value["outputText"] = EmptyText) =>
                       (Shown(ui) /\ ui.statusMsg = MsgTranslateFirst)

\* summarize was clicked with "translated" chosen and nothing translated
C4_Witness ==
    /\ ev.name = "summarize"
    /\ ui.radio["summarySource"] = "translated"
    /\ ui.value["outputText"] = EmptyText
    /\ ui.statusMsg = MsgTranslateFirst
    /\ ~ev.issued

\* C5: every call of the transport client resolves: with the connect-failure
\* object {success: false, error: "Failed to connect to server. ..."} when
\* the fetch rejected or its body was not JSON, with the parsed body
\* otherwise.
C5_NeverRejects ==
    lastCall.fn # "none" =>
        /\ lastCall.result.settled = "resolved"
        /\ IF lastCall.fetch.kind = "json"
           THEN lastCall.result.value = lastCall.fetch.body
           ELSE /\ lastCall.result.value.type = "object"
                /\ lastCall.result.value.has = {"success", "error"}
                /\ ~lastCall.result.value.success
                /\ lastCall.result.value.error = MsgConnect

\* summarize was called and its fetch rejected
C5_Witness ==
    /\ lastCall.fn = "summarize"
    /\ lastCall.fetch.kind = "rejected"
    /\ lastCall.result.settled = "resolved"

\* C6: when the response to a translate request says no success, the handler
\* leaves the output area empty, the copy and download buttons as enabled or
\* disabled as they were, and an error banner with the response's message,
\* or "Translation failed" if it has none.
C6_TranslateFailure ==
    (ev.name = "translateDone" /\ SaidFailure) =>
        /\ ui.value["outputText"] = EmptyText
        /\ \A b \in OutputButtons : ui.disabled[b] = ev.pre.disabled[b]
        /\ Shown(ui)
        /\ "error" \in ui.statusClasses
        /\ ui.statusMsg = IF ev.result.value.error # ""
                          THEN ev.result.value.error ELSE MsgTranslateFailed

\* a translation stood in the output area, with the buttons enabled, when a
\* translate request failed for want of a connection
C6_Witness ==
    /\ ev.name = "translateDone"
    /\ ev.result.value = ConnectFailure
    /\ ev.pre.output # EmptyText
    /\ ~ev.pre.disabled["copyOutput"]
    /\ ui.value["outputText"] = EmptyText

HelperNames ==
    {"updateStats", "showLoading", "hideLoading", "showStatus",
     "populateLanguageDropdown", "updateOutputButtons", "swapLanguages",
     "toggleSummarySection"}

\* C7: a helper called on a page that lacks an element it looks up does not
\* throw and changes nothing.
C7_MissingElements ==
    (ev.name \in HelperNames /\ ~(ev.expects \subseteq ui.present)) =>
        /\ ~thrown
        /\ ui = LoadTheme(Page(ui.present, ui.markupDisabled), storage)

\* C8: a banner shown with duration 0 stays visible until another showStatus
\* call replaces it.
C8_ZeroDurationStays == ui.zeroDuration => Shown(ui)

\* C9: swapLanguages on source "auto" leaves both selectors as they were and
\* shows the error "Cannot swap with auto-detect"; on any other pair it
\* exchanges the two values, and a second swap gives the first pair back.
C9_Swap ==
    ev.name = "swap" =>
        IF ev.pre.sel["sourceLanguage"] = "auto"
        THEN /\ ui.sel = ev.pre.sel
             /\ Shown(ui)
             /\ "error" \in ui.statusClasses
             /\ ui.statusMsg = MsgCannotSwap
        ELSE /\ ui.sel["sourceLanguage"] = ev.pre.sel["targetLanguage"]
             /\ ui.sel["targetLanguage"] = ev.pre.sel["sourceLanguage"]
             /\ SwapLanguages(ui).sel = ev.pre.sel

\* two different languages were swapped
C9_Witness ==
    /\ ev.name = "swap"
    /\ ev.pre.sel["sourceLanguage"] = "en"
    /\ ev.pre.sel["targetLanguage"] = "hi"
    /\ ui.sel["sourceLanguage"] = "hi"

\* C10: the theme attribute is "light" or "dark" and two toggles give it
\* back; after a toggle the attribute is the other theme and the stored
\* entry equals it; a reload gives the theme that stood before it; loadTheme
\* gives "light" when nothing is stored.
C10_Theme ==
    /\ ui.theme \in {"light", "dark"}
    /\ ToggleThemeUi(ToggleThemeUi(ui)).theme = ui.theme
    /\ ev.name = "theme" =>
           /\ ui.theme # ev.pre.theme
           /\ ToggleThemeUi(ui).theme = ev.pre.theme
           /\ storage = ui.theme
    /\ ev.name = "reload" => ui.theme = ev.pre.theme
    /\ (ev.name \in {"load", "reload"} /\ storage = "null") => ui.theme = "light"

\* the page was reloaded after the theme was toggled to dark
C10_Witness ==
    /\ ev.name = "reload"
    /\ storage = "dark"
    /\ ui.theme = "dark"

\* C11: whenever no translate or summarize handler is running or suspended,
\* state.currentOutputText equals the contents of the output area.
C11_OutputMirrored ==
    pending = <<>> => state.currentOutputText = ui.value["outputText"]

====
